---- MODULE Spec2Model ----
(***************************************************************************)
(* Model of the iops plugin (main.go): the iostat parser, the report       *)
(* builder, the /report handler with its mutex, and the process lifecycle  *)
(* (startup probe, socket setup, signal goroutine).                        *)
(*                                                                         *)
(* Strings are sequences of one-character strings, so that strings.Split,  *)
(* strings.Fields, strconv.Itoa and string concatenation are computed.     *)
(***************************************************************************)
EXTENDS Integers, Sequences, FiniteSets, TLC

\* ---------------------------------------------------------------- bounds
MaxLines == 5

\* ---------------------------------------------------------------- strings
NL == "\n"

\* unicode.IsSpace restricted to the characters the model uses
IsSpace(c) == c \in {" ", "\t", "\n"}

RECURSIVE Join(_, _)
\* strings.Join(ls, sep), the inverse the command's writer applies
Join(ls, sep) ==
  IF ls = <<>> THEN <<>>
  ELSE IF Len(ls) = 1 THEN ls[1]
  ELSE ls[1] \o <<sep>> \o Join(Tail(ls), sep)

RECURSIVE Split(_, _)
\* strings.Split(s, sep) for a one-character sep: n separators give n+1 parts
Split(s, sep) ==
  IF \A k \in 1..Len(s) : s[k] /= sep THEN <<s>>
  ELSE LET k == CHOOSE k \in 1..Len(s) :
                  s[k] = sep /\ \A j \in 1..(k-1) : s[j] /= sep
       IN <<SubSeq(s, 1, k-1)>> \o Split(SubSeq(s, k+1, Len(s)), sep)

RECURSIVE Fields(_)
\* strings.Fields(s): the maximal runs of non-space characters
Fields(s) ==
  IF s = <<>> THEN <<>>
  ELSE IF IsSpace(s[1]) THEN Fields(Tail(s))
  ELSE LET stop == IF \E k \in 1..Len(s) : IsSpace(s[k])
                   THEN CHOOSE k \in 1..Len(s) :
                          IsSpace(s[k]) /\ \A j \in 1..(k-1) : ~IsSpace(s[j])
                   ELSE Len(s) + 1
       IN <<SubSeq(s, 1, stop-1)>> \o Fields(SubSeq(s, stop, Len(s)))

Digit(d) == <<"0","1","2","3","4","5","6","7","8","9">>[d+1]

RECURSIVE Itoa(_)
\* strconv.Itoa(n) for n >= 0
Itoa(n) == IF n < 10 THEN <<Digit(n)>> ELSE Itoa(n \div 10) \o <<Digit(n % 10)>>

HasPrefix(s, p) == Len(s) >= Len(p) /\ SubSeq(s, 1, Len(p)) = p
HasSuffix(s, p) == Len(s) >= Len(p) /\ SubSeq(s, Len(s)-Len(p)+1, Len(s)) = p

\* ---------------------------------------------------------------- constants
iopsTablePrefix == <<"i","o","p","s","-","t","a","b","l","e","-">>
Sep3 == <<"_","_","_">>
sDevice == <<"d","e","v","i","c","e">>
sTps == <<"t","p","s">>
sReadps == <<"r","e","a","d","p","s">>
sWriteps == <<"w","r","i","t","e","p","s">>
sIops == <<"i","o","p","s">>
sReporter == <<"r","e","p","o","r","t","e","r">>
hostSuffix == <<";","<","h","o","s","t",">">>

\* ---------------------------------------------------------------- iostat output
\* Lines the command may print: empty, whitespace only, and lines of
\* one, two, four and five fields.
LineE == <<>>
LineW == <<" ">>
LineB == <<"L">>
LineD2 == <<"b"," ","4">>
LineD4 == <<"a"," ","1"," ","2"," ","3">>
LineD5 == <<"c"," ","5"," ","6"," ","7"," ","8">>
LineKinds == {LineE, LineW, LineB, LineD2, LineD4, LineD5}

RECURSIVE SeqsUpTo(_, _)
SeqsUpTo(S, n) ==
  IF n = 0 THEN {<<>>}
  ELSE LET R == SeqsUpTo(S, n-1)
       IN R \cup {Append(r, x) : r \in {q \in R : Len(q) = n-1}, x \in S}

\* result of exec.Command("iostat", "-d").Output()
CmdOutputs ==
  {[err |-> TRUE, out |-> <<>>]}
  \cup {[err |-> FALSE, out |-> Join(ls, NL)] : ls \in SeqsUpTo(LineKinds, MaxLines)}

\* ---------------------------------------------------------------- iostat
iopsData0 == [Device |-> <<>>, Tps |-> <<>>, Readps |-> <<>>, Writeps |-> <<>>]

\* make([]iopsData, len(lines)-3); var i = 0
LoopInit(ls) ==
  [lines |-> ls, iops |-> [k \in 1..(Len(ls)-3) |-> iopsData0],
   i |-> 0, index |-> 0, st |-> IF Len(ls) = 0 THEN "done" ELSE "loop"]

\* one iteration of "for index, line := range lines"
LoopBody(s) ==
  LET line == s.lines[s.index + 1]
      next == IF s.index + 1 >= Len(s.lines) THEN "done" ELSE "loop"
  IN IF line = <<>> /\ s.index /= 1 THEN [s EXCEPT !.st = "done"]
     ELSE IF s.index > 2
       THEN LET values == Fields(line)
            IN IF s.i >= Len(s.iops) \/ Len(values) < 4
                 THEN [s EXCEPT !.st = "panic"]
                 ELSE [s EXCEPT !.iops[s.i + 1] =
                                    [Device |-> values[1], Tps |-> values[2],
                                     Readps |-> values[3], Writeps |-> values[4]],
                                !.i = s.i + 1,
                                !.index = s.index + 1,
                                !.st = next]
       ELSE [s EXCEPT !.index = s.index + 1, !.st = next]

RECURSIVE RunLoop(_)
RunLoop(s) == IF s.st = "loop" THEN RunLoop(LoopBody(s)) ELSE s

\* the statements after the loop
LoopResult(s) ==
  IF s.st = "panic" THEN [kind |-> "panic", recs |-> <<>>]
  ELSE IF Len(s.iops) <= 0 THEN [kind |-> "err", recs |-> <<>>]
  ELSE [kind |-> "ok", recs |-> s.iops]

\* iostat() on the command's result
iostat(cmd) ==
  IF cmd.err THEN [kind |-> "err", recs |-> <<>>]
  ELSE LET ls == Split(cmd.out, NL)
       IN IF Len(ls) < 3 THEN [kind |-> "err", recs |-> <<>>]
          ELSE LoopResult(RunLoop(LoopInit(ls)))

iops(cmd) == iostat(cmd)

\* ---------------------------------------------------------------- report builder
EmptyMap == [x \in {} |-> x]
sIopsTable == <<"i","o","p","s","-","t","a","b","l","e","-">>

Put(m, k, v) == [x \in DOMAIN m \cup {k} |-> IF x = k THEN v ELSE m[x]]

\* the key numbered from index instead of index+1
LatestKey_mut(index, col) == sIopsTable \o Itoa(index) \o Sep3 \o col

\* "iops-table-" + strconv.Itoa(index+1) + "___<column>"
LatestKey(index, col) == sIopsTable \o Itoa(index + 1) \o Sep3 \o col

\* body of "for index, value := range IopsData"
LatestsBody(latests, index, value, ts) ==
  LET m1 == Put(latests, LatestKey(index, sDevice),
                [Timestamp |-> ts, Value |-> value.Device])
      m2 == Put(m1, LatestKey(index, sTps),
                [Timestamp |-> ts, Value |-> value.Tps])
      m3 == Put(m2, LatestKey(index, sReadps),
                [Timestamp |-> ts, Value |-> value.Readps])
  IN Put(m3, LatestKey(index, sWriteps),
         [Timestamp |-> ts, Value |-> value.Writeps])

RECURSIVE LatestsLoop(_, _, _, _)
LatestsLoop(latests, IopsData, index, ts) ==
  IF index >= Len(IopsData) THEN latests
  ELSE LatestsLoop(LatestsBody(latests, index, IopsData[index + 1], ts),
                   IopsData, index + 1, ts)

\* getLatests() with ts := time.Now() and the result d of iops();
\* a nil map is the empty map
getLatests(ts, d) ==
  IF d.kind = "err" THEN EmptyMap
  ELSE LatestsLoop(EmptyMap, d.recs, 0, ts)

MetaEntry(id, label) ==
  [ID |-> id, Label |-> label, Truncate |-> 0, Datatype |-> "",
   Priority |-> 1, From |-> "latest"]

getMetadataTemplate ==
  Put(Put(Put(Put(EmptyMap,
    sDevice, MetaEntry(sDevice, "Device")),
    sTps, MetaEntry(sTps, "tps")),
    sReadps, MetaEntry(sReadps, "kB_read/s")),
    sWriteps, MetaEntry(sWriteps, "kB_wrtn/s"))

\* the table template with a column id the keys do not use
getTableTemplate_mut ==
  Put(EmptyMap, sIopsTable,
      [ID |-> sIopsTable, Label |-> "Iops", Prefix |-> iopsTablePrefix,
       Type |-> "multicolumn-table",
       Columns |-> << [ID |-> sDevice, Label |-> "Device", Datatype |-> ""],
                      [ID |-> sTps, Label |-> "tps", Datatype |-> ""],
                      [ID |-> sReadps, Label |-> "kB_read/s", Datatype |-> ""],
                      [ID |-> <<"w","r","i","t","e">>, Label |-> "kB_wrtn/s",
                       Datatype |-> ""] >>])

getTableTemplate ==
  Put(EmptyMap, sIopsTable,
      [ID |-> sIopsTable, Label |-> "Iops", Prefix |-> iopsTablePrefix,
       Type |-> "multicolumn-table",
       Columns |-> << [ID |-> sDevice, Label |-> "Device", Datatype |-> ""],
                      [ID |-> sTps, Label |-> "tps", Datatype |-> ""],
                      [ID |-> sReadps, Label |-> "kB_read/s", Datatype |-> ""],
                      [ID |-> sWriteps, Label |-> "kB_wrtn/s", Datatype |-> ""] >>])

\* fmt.Sprintf("%s;<host>", p.HostID)
getTopologyHost(HostID) == HostID \o hostSuffix

\* makeReport passing on the failure of getLatests as an error
makeReport_mut(HostID, latest) ==
  [rpt |->
     [Host |->
        [Nodes |-> Put(EmptyMap, getTopologyHost(HostID),
                       [LatestControls |-> EmptyMap, Latest |-> latest]),
         Controls |-> EmptyMap,
         MetadataTemplates |-> getMetadataTemplate,
         TableTemplates |-> getTableTemplate],
      Plugins |-> << [ID |-> sIops, Label |-> "iops",
                      Description |-> "Adds a IOPS details to Host",
                      Interfaces |-> <<sReporter>>, APIVersion |-> "1"] >>],
   err |-> (latest = EmptyMap)]

\* makeReport() given the value getLatests() returned; the error is always nil
makeReport(HostID, latest) ==
  [rpt |->
     [Host |->
        [Nodes |-> Put(EmptyMap, getTopologyHost(HostID),
                       [LatestControls |-> EmptyMap, Latest |-> latest]),
         Controls |-> EmptyMap,
         MetadataTemplates |-> getMetadataTemplate,
         TableTemplates |-> getTableTemplate],
      Plugins |-> << [ID |-> sIops, Label |-> "iops",
                      Description |-> "Adds a IOPS details to Host",
                      Interfaces |-> <<sReporter>>, APIVersion |-> "1"] >>],
   err |-> FALSE]

\* ---------------------------------------------------------------- state
VARIABLES
  cmd,        \* parser run: the command result handed to iostat
  ipc,        \* parser run: position ("split", "loop", "return", "latests", "done")
  loop,       \* parser run: lines, iops, i, index of the running loop
  ret,        \* parser run: what iostat returned
  latest,     \* parser run: what getLatests built from ret
  HostID,     \* Plugin.HostID
  mainpc,     \* position of the main goroutine
  sigpc,      \* position of the goroutine started by setupSignals
  interrupt,  \* number of signals buffered in the channel (capacity 1)
  dirExists,  \* the socket directory exists
  sockExists, \* the socket file exists in it
  listening,  \* the listener is open
  exited,     \* "no", or how the process ended
  probe,      \* outcome of the startup call of iops(): "none", "ok", "err", "panic"
  lock,       \* Plugin.lock is held
  hs,         \* per serving goroutine: pc and the locals of Report
  responses,  \* per serving goroutine: what Report has written to its connection
  nreq,       \* number of requests accepted so far
  nexec,      \* number of invocations of the command so far
  now         \* the clock

pvars == <<cmd, ipc, loop, ret, latest>>
dvars == <<HostID, mainpc, sigpc, interrupt, dirExists, sockExists, listening,
           exited, probe, lock, hs, responses, nreq, nexec, now>>
vars == <<cmd, ipc, loop, ret, latest,
          HostID, mainpc, sigpc, interrupt, dirExists, sockExists, listening,
          exited, probe, lock, hs, responses, nreq, nexec, now>>

\* ---------------------------------------------------------------- bounds of the daemon
NumHandlers == 2
MaxRequests == 2

Handlers == 1..NumHandlers

\* what os.Hostname() returned
HostName == <<"h","1">>

\* command results the running daemon sees: the command fails; one line only;
\* the usual output of one device (banner, blank, header, device, blank and
\* the final newline); two devices without a final newline; a short device line
SampleOutputs ==
  { [err |-> TRUE, out |-> <<>>],
    [err |-> FALSE, out |-> Join(<<LineB, LineE>>, NL)],
    [err |-> FALSE, out |-> Join(<<LineB, LineE, LineD5, LineD4, LineE, LineE>>, NL)],
    [err |-> FALSE, out |-> Join(<<LineB, LineE, LineD5, LineD4, LineD5>>, NL)],
    [err |-> FALSE, out |-> Join(<<LineB, LineE, LineD5, LineD2, LineE>>, NL)] }

NoLoop == [lines |-> <<>>, iops |-> <<>>, i |-> 0, index |-> 0, st |-> "none"]
NoRet == [kind |-> "none", recs |-> <<>>]
NoCmd == [err |-> TRUE, out |-> <<>>]
NoExec == [id |-> 0, start |-> 0, end |-> 0, res |-> NoCmd]
NoResp == [status |-> 0, rpt |-> <<>>, err |-> "", at |-> 0]
Idle == [pc |-> "idle", req |-> 0, begin |-> 0, ts |-> 0, exec |-> NoExec,
         rpt |-> <<>>, panicked |-> FALSE]

\* the daemon right after setupSignals(): signal.Notify is registered and the
\* goroutine waits on the channel; the directory may be left from an earlier run
DaemonInit ==
  /\ HostID = HostName
  /\ mainpc = "probe"
  /\ sigpc = "wait"
  /\ interrupt = 0
  /\ dirExists \in BOOLEAN
  /\ sockExists = FALSE
  /\ listening = FALSE
  /\ exited = "no"
  /\ probe = "none"
  /\ lock = FALSE
  /\ hs = [h \in Handlers |-> Idle]
  /\ responses = [h \in Handlers |-> NoResp]
  /\ nreq = 0
  /\ nexec = 0
  /\ now = 0

ParserIdle ==
  /\ cmd = [err |-> TRUE, out |-> <<>>]
  /\ ipc = "done"
  /\ loop = NoLoop
  /\ ret = NoRet
  /\ latest = EmptyMap

\* ---------------------------------------------------------------- parser run
\* iostat(): exec returned cmd; strings.Split and the length check
IostatSplit ==
  /\ ipc = "split"
  /\ IF cmd.err THEN /\ ret' = [kind |-> "err", recs |-> <<>>]
                     /\ ipc' = "latests"
                     /\ loop' = loop
     ELSE LET ls == Split(cmd.out, NL)
          IN IF Len(ls) < 3
               THEN /\ ret' = [kind |-> "err", recs |-> <<>>]
                    /\ ipc' = "latests"
                    /\ loop' = [loop EXCEPT !.lines = ls]
               ELSE /\ loop' = LoopInit(ls)
                    /\ ipc' = "loop"
                    /\ ret' = ret
  /\ UNCHANGED <<cmd, latest>>
  /\ UNCHANGED dvars

\* one iteration of the loop of iostat()
IostatLoop ==
  /\ ipc = "loop"
  /\ loop.st = "loop"
  /\ loop' = LoopBody(loop)
  /\ UNCHANGED <<cmd, ipc, ret, latest>>
  /\ UNCHANGED dvars

\* the loop is over: the final length check and the return (or the panic)
IostatReturn ==
  /\ ipc = "loop"
  /\ loop.st \in {"done", "panic"}
  /\ ret' = LoopResult(loop)
  /\ ipc' = IF loop.st = "panic" THEN "done" ELSE "latests"
  /\ UNCHANGED <<cmd, loop, latest>>
  /\ UNCHANGED dvars

Times == {1, 2}

\* getLatests() continues with what iops() returned
Latests ==
  /\ ipc = "latests"
  /\ \E ts \in Times : latest' = getLatests(ts, ret)
  /\ ipc' = "done"
  /\ UNCHANGED <<cmd, loop, ret>>
  /\ UNCHANGED dvars

ParseInit ==
  /\ cmd \in CmdOutputs
  /\ ipc = "split"
  /\ loop = NoLoop
  /\ ret = NoRet
  /\ latest = EmptyMap
  /\ DaemonInit
  /\ dirExists = FALSE

ParseNext == IostatSplit \/ IostatLoop \/ IostatReturn \/ Latests

SpecParse == ParseInit /\ [][ParseNext]_vars

\* ---------------------------------------------------------------- main goroutine
Alive == exited = "no"

\* main going on after a failed probe
ProbeExit_mut(kind) == IF kind = "panic" THEN "panic" ELSE "no"

\* main: "_, err := iops(); if err != nil { log.Fatal(err) }"; a panic of
\* the main goroutine ends the process as well
ProbeExit(kind) ==
  IF kind = "ok" THEN "no" ELSE IF kind = "err" THEN "fatal" ELSE "panic"

Probe ==
  /\ Alive
  /\ mainpc = "probe"
  /\ \E c \in SampleOutputs :
       LET d == iops(c)
       IN /\ probe' = d.kind
          /\ exited' = ProbeExit(d.kind)
          /\ mainpc' = IF ProbeExit(d.kind) = "no" THEN "removeAll" ELSE mainpc
  /\ nexec' = nexec + 1
  /\ now' = now + 2
  /\ UNCHANGED <<HostID, sigpc, interrupt, dirExists, sockExists, listening,
                 lock, hs, responses, nreq>>
  /\ UNCHANGED pvars

\* setupSocket: os.RemoveAll(filepath.Dir(socketPath))
MainRemoveAll ==
  /\ Alive
  /\ mainpc = "removeAll"
  /\ dirExists' = FALSE
  /\ sockExists' = FALSE
  /\ mainpc' = "mkdirAll"
  /\ UNCHANGED <<HostID, sigpc, interrupt, listening, exited, probe, lock, hs,
                 responses, nreq, nexec, now>>
  /\ UNCHANGED pvars

\* setupSocket: os.MkdirAll, whose error main passes to log.Fatal
MainMkdirAll ==
  /\ Alive
  /\ mainpc = "mkdirAll"
  /\ \E ok \in BOOLEAN :
       IF ok THEN /\ dirExists' = TRUE
                  /\ mainpc' = "listen"
                  /\ exited' = exited
             ELSE /\ exited' = "fatal"
                  /\ UNCHANGED <<dirExists, mainpc>>
  /\ UNCHANGED <<HostID, sigpc, interrupt, sockExists, listening, probe, lock,
                 hs, responses, nreq, nexec, now>>
  /\ UNCHANGED pvars

\* setupSocket: net.Listen("unix", socketPath), which needs the directory;
\* its error goes to log.Fatal. On success main goes on to http.Serve.
MainListen ==
  /\ Alive
  /\ mainpc = "listen"
  /\ \E ok \in BOOLEAN :
       IF ok /\ dirExists /\ ~sockExists
         THEN /\ sockExists' = TRUE
              /\ listening' = TRUE
              /\ mainpc' = "serve"
              /\ exited' = exited
         ELSE /\ exited' = "fatal"
              /\ UNCHANGED <<sockExists, listening, mainpc>>
  /\ UNCHANGED <<HostID, sigpc, interrupt, dirExists, probe, lock, hs,
                 responses, nreq, nexec, now>>
  /\ UNCHANGED pvars

\* http.Serve accepts a connection on the socket and starts a goroutine
\* that calls plugin.Report
Accept(h) ==
  /\ Alive
  /\ mainpc = "serve"
  /\ listening
  /\ sockExists
  /\ hs[h].pc = "idle"
  /\ nreq < MaxRequests
  /\ nreq' = nreq + 1
  /\ hs' = [hs EXCEPT ![h] = [Idle EXCEPT !.pc = "lock", !.req = nreq + 1,
                                         !.begin = now]]
  /\ now' = now + 1
  /\ UNCHANGED <<HostID, mainpc, sigpc, interrupt, dirExists, sockExists,
                 listening, exited, probe, lock, responses, nexec>>
  /\ UNCHANGED pvars

\* http.Serve returns with an error of the listener
ServeReturn ==
  /\ Alive
  /\ mainpc = "serve"
  /\ mainpc' = "defer"
  /\ UNCHANGED <<HostID, sigpc, interrupt, dirExists, sockExists, listening,
                 exited, probe, lock, hs, responses, nreq, nexec, now>>
  /\ UNCHANGED pvars

\* the deferred function of main (listener.Close, os.RemoveAll), then main returns
MainDeferred ==
  /\ Alive
  /\ mainpc = "defer"
  /\ listening' = FALSE
  /\ dirExists' = FALSE
  /\ sockExists' = FALSE
  /\ exited' = "main"
  /\ UNCHANGED <<HostID, mainpc, sigpc, interrupt, probe, lock, hs, responses,
                 nreq, nexec, now>>
  /\ UNCHANGED pvars

\* ---------------------------------------------------------------- signal goroutine
\* SIGINT or SIGTERM is delivered: signal.Notify puts it in the channel of
\* capacity 1 (and drops it when the channel is full)
Signal ==
  /\ Alive
  /\ interrupt = 0
  /\ interrupt' = 1
  /\ UNCHANGED <<HostID, mainpc, sigpc, dirExists, sockExists, listening,
                 exited, probe, lock, hs, responses, nreq, nexec, now>>
  /\ UNCHANGED pvars

\* <-interrupt
SigReceive ==
  /\ Alive
  /\ sigpc = "wait"
  /\ interrupt = 1
  /\ interrupt' = 0
  /\ sigpc' = "removeAll"
  /\ UNCHANGED <<HostID, mainpc, dirExists, sockExists, listening, exited,
                 probe, lock, hs, responses, nreq, nexec, now>>
  /\ UNCHANGED pvars

\* os.RemoveAll(filepath.Dir(socketPath))
SigRemoveAll ==
  /\ Alive
  /\ sigpc = "removeAll"
  /\ dirExists' = FALSE
  /\ sockExists' = FALSE
  /\ sigpc' = "exit"
  /\ UNCHANGED <<HostID, mainpc, interrupt, listening, exited, probe, lock, hs,
                 responses, nreq, nexec, now>>
  /\ UNCHANGED pvars

\* os.Exit(0)
SigExit ==
  /\ Alive
  /\ sigpc = "exit"
  /\ exited' = "signal"
  /\ UNCHANGED <<HostID, mainpc, sigpc, interrupt, dirExists, sockExists,
                 listening, probe, lock, hs, responses, nreq, nexec, now>>
  /\ UNCHANGED pvars

\* ---------------------------------------------------------------- Plugin.Report
\* Report entering without waiting for the mutex
ReportLock_mut(h) ==
  /\ Alive
  /\ hs[h].pc = "lock"
  /\ lock' = TRUE
  /\ hs' = [hs EXCEPT ![h].pc = "sample"]
  /\ UNCHANGED <<HostID, mainpc, sigpc, interrupt, dirExists, sockExists,
                 listening, exited, probe, responses, nreq, nexec, now>>
  /\ UNCHANGED pvars

\* p.lock.Lock()
ReportLock(h) ==
  /\ Alive
  /\ hs[h].pc = "lock"
  /\ ~lock
  /\ lock' = TRUE
  /\ hs' = [hs EXCEPT ![h].pc = "sample"]
  /\ UNCHANGED <<HostID, mainpc, sigpc, interrupt, dirExists, sockExists,
                 listening, exited, probe, responses, nreq, nexec, now>>
  /\ UNCHANGED pvars

\* makeReport -> getLatests: ts := time.Now(), then iostat starts the command
ReportSample(h) ==
  /\ Alive
  /\ hs[h].pc = "sample"
  /\ nexec' = nexec + 1
  /\ hs' = [hs EXCEPT ![h].pc = "build", ![h].ts = now,
                      ![h].exec = [id |-> nexec + 1, start |-> now + 1,
                                   end |-> 0, res |-> NoCmd]]
  /\ now' = now + 2
  /\ UNCHANGED <<HostID, mainpc, sigpc, interrupt, dirExists, sockExists,
                 listening, exited, probe, lock, responses, nreq>>
  /\ UNCHANGED pvars

\* Report building without the result of the command it started
ReportBuild_mut(h) ==
  /\ Alive
  /\ hs[h].pc = "build"
  /\ \E c \in SampleOutputs :
       LET d == iops(hs[h].exec.res)
           m == makeReport(HostID, getLatests(hs[h].ts, d))
           e == [hs[h].exec EXCEPT !.end = now, !.res = c]
       IN /\ hs' = [hs EXCEPT ![h].pc = "marshal", ![h].exec = e,
                              ![h].rpt = m.rpt]
          /\ responses' = responses
  /\ now' = now + 2
  /\ UNCHANGED <<HostID, mainpc, sigpc, interrupt, dirExists, sockExists,
                 listening, exited, probe, lock, nreq, nexec>>
  /\ UNCHANGED pvars

\* the command returns; iostat parses, getLatests and makeReport build the
\* report; Report answers 500 if makeReport returned an error. A panic of
\* iostat unwinds the handler (net/http recovers it and drops the connection).
ReportBuild(h) ==
  /\ Alive
  /\ hs[h].pc = "build"
  /\ \E c \in SampleOutputs :
       LET d == iops(c)
           m == makeReport(HostID, getLatests(hs[h].ts, d))
           e == [hs[h].exec EXCEPT !.end = now, !.res = c]
       IN IF d.kind = "panic"
            THEN /\ hs' = [hs EXCEPT ![h].pc = "unlock", ![h].exec = e,
                                     ![h].panicked = TRUE]
                 /\ responses' = responses
            ELSE IF m.err
              THEN /\ hs' = [hs EXCEPT ![h].pc = "unlock", ![h].exec = e]
                   /\ responses' = [responses EXCEPT ![h] =
                                      [status |-> 500, rpt |-> <<>>,
                                       err |-> "makeReport", at |-> now + 1]]
              ELSE /\ hs' = [hs EXCEPT ![h].pc = "marshal", ![h].exec = e,
                                       ![h].rpt = m.rpt]
                   /\ responses' = responses
  /\ now' = now + 2
  /\ UNCHANGED <<HostID, mainpc, sigpc, interrupt, dirExists, sockExists,
                 listening, exited, probe, lock, nreq, nexec>>
  /\ UNCHANGED pvars

\* json.Marshal(*rpt), which may return an error, then the 500 or the 200
\* with the encoded report
ReportWrite(h) ==
  /\ Alive
  /\ hs[h].pc = "marshal"
  /\ \E ok \in BOOLEAN :
       responses' = [responses EXCEPT ![h] =
                       IF ok THEN [status |-> 200, rpt |-> hs[h].rpt,
                                   err |-> "", at |-> now]
                             ELSE [status |-> 500, rpt |-> <<>>,
                                   err |-> "marshal", at |-> now]]
  /\ hs' = [hs EXCEPT ![h].pc = "unlock"]
  /\ now' = now + 1
  /\ UNCHANGED <<HostID, mainpc, sigpc, interrupt, dirExists, sockExists,
                 listening, exited, probe, lock, nreq, nexec>>
  /\ UNCHANGED pvars

\* the deferred p.lock.Unlock(), on return and on panic alike; the server
\* then finishes the response and the goroutine is free for another request
ReportUnlock(h) ==
  /\ Alive
  /\ hs[h].pc = "unlock"
  /\ lock' = FALSE
  /\ hs' = [hs EXCEPT ![h] = Idle]
  /\ responses' = [responses EXCEPT ![h] = NoResp]
  /\ UNCHANGED <<HostID, mainpc, sigpc, interrupt, dirExists, sockExists,
                 listening, exited, probe, nreq, nexec, now>>
  /\ UNCHANGED pvars

\* ---------------------------------------------------------------- the daemon
Init == DaemonInit /\ ParserIdle

Next ==
  \/ Probe
  \/ MainRemoveAll
  \/ MainMkdirAll
  \/ MainListen
  \/ ServeReturn
  \/ MainDeferred
  \/ Signal
  \/ SigReceive
  \/ SigRemoveAll
  \/ SigExit
  \/ \E h \in Handlers : Accept(h)
  \/ \E h \in Handlers : ReportLock(h)
  \/ \E h \in Handlers : ReportSample(h)
  \/ \E h \in Handlers : ReportBuild(h)
  \/ \E h \in Handlers : ReportWrite(h)
  \/ \E h \in Handlers : ReportUnlock(h)

Spec == Init /\ [][Next]_vars

\* ================================================================ properties
Columns4 == {sDevice, sTps, sReadps, sWriteps}

ColumnOf(rec, c) ==
  IF c = sDevice THEN rec.Device
  ELSE IF c = sTps THEN rec.Tps
  ELSE IF c = sReadps THEN rec.Readps
  ELSE rec.Writeps

First4(values) ==
  [Device |-> values[1], Tps |-> values[2], Readps |-> values[3],
   Writeps |-> values[4]]

IsDeviceLine(l) == Len(Fields(l)) >= 4

\* lines 0..2 are the banner, a blank line and the header, then N device
\* lines, then a blank line
C1_Shape(ls, N) ==
  /\ Len(ls) >= N + 4
  /\ Fields(ls[1]) /= <<>>
  /\ ls[2] = <<>>
  /\ Fields(ls[3]) /= <<>>
  /\ \A k \in 1..N : IsDeviceLine(ls[3 + k])
  /\ ls[N + 4] = <<>>

\* C1: for an output of banner, blank line, header, N >= 1 device lines and a
\* blank line, iostat returns exactly N records, record k holding the first
\* four fields of the k-th device line, and no record with empty fields.
C1_OneRecordPerDeviceLine ==
  (ret.kind /= "none" /\ ~cmd.err) =>
    \A N \in 1..(MaxLines + 1) :
      C1_Shape(loop.lines, N) =>
        /\ ret.kind = "ok"
        /\ Len(ret.recs) = N
        /\ \A k \in 1..N : ret.recs[k] = First4(Fields(loop.lines[3 + k]))
        /\ \A k \in 1..Len(ret.recs) :
             \A c \in Columns4 : ColumnOf(ret.recs[k], c) /= <<>>

C4_Key(k, c) ==
  <<"i","o","p","s","-","t","a","b","l","e","-">> \o Itoa(k) \o <<"_","_","_">> \o c

\* C4: for a successful sample of N records the latest map has exactly the
\* 4*N keys "iops-table-" + k + "___" + c (k in 1..N, c a column), the value
\* of key (k, c) is field c of the k-th record, and all entries carry the
\* same timestamp.
C4_StableNaming ==
  (ipc = "done" /\ ret.kind = "ok") =>
    LET N == Len(ret.recs)
    IN /\ Cardinality(DOMAIN latest) = 4 * N
       /\ DOMAIN latest = {C4_Key(k, c) : k \in 1..N, c \in Columns4}
       /\ \A k \in 1..N : \A c \in Columns4 :
            latest[C4_Key(k, c)].Value = ColumnOf(ret.recs[k], c)
       /\ \A a, b \in DOMAIN latest : latest[a].Timestamp = latest[b].Timestamp

\* getLatests has run on a sample of two different device records
C4_Witness ==
  /\ ipc = "done"
  /\ ret.kind = "ok"
  /\ Len(ret.recs) = 2
  /\ ret.recs[1].Device /= <<>>
  /\ ret.recs[2].Device /= <<>>
  /\ ret.recs[1] /= ret.recs[2]
  /\ latest /= EmptyMap

\* C8: whenever the loop filled no record iostat returns an error; every
\* record of a non-error result was filled from a device line.
C8_ErrorWhenNothingParsed ==
  (ret.kind \in {"ok", "err"}) =>
    /\ (loop.i = 0 => ret.kind = "err")
    /\ (ret.kind = "ok" => Len(ret.recs) <= loop.i)

\* C10: iostat never indexes out of range: it ends with records or an error,
\* the write index stays below len(lines)-3 and values[0..3] is read only
\* from a line of at least four fields.
C10_NeverOutOfRange ==
  /\ ret.kind /= "panic"
  /\ loop.st /= "panic"
  /\ (ipc = "loop" /\ loop.st = "loop" /\ loop.index > 2
        /\ loop.lines[loop.index + 1] /= <<>>) =>
       /\ loop.i < Len(loop.lines) - 3
       /\ Len(Fields(loop.lines[loop.index + 1])) >= 4

InSection(h) == hs[h].pc \in {"sample", "build", "marshal", "unlock"}

\* C2: at most one handler is between acquiring and releasing Plugin.lock,
\* and the lock is held exactly when one handler is inside that section
\* (so it is released on every return path).
C2_Serialized ==
  /\ Cardinality({h \in Handlers : InSection(h)}) <= 1
  /\ lock <=> (Cardinality({h \in Handlers : InSection(h)}) = 1)

\* a handler leaves through an error path while another waits for the lock
C2_Witness ==
  \E h1, h2 \in Handlers :
    /\ hs[h1].pc = "unlock"
    /\ (hs[h1].panicked \/ responses[h1].status = 500)
    /\ hs[h2].pc = "lock"
    /\ lock

ValuesOf(m) == [k \in DOMAIN m |-> m[k].Value]

LatestOf(rpt, host) == rpt.Host.Nodes[host \o <<";","<","h","o","s","t",">">>].Latest

\* C3: the values of a response come from an invocation of the command that
\* started after the request's handler began and completed before the
\* response was written; it is not the startup probe's invocation nor one
\* another handler uses, and every request past sampling made its own.
C3_OwnSample ==
  /\ \A h \in Handlers :
       (hs[h].pc = "unlock" /\ responses[h].status = 200) =>
         LET e == hs[h].exec
         IN /\ e.id > 1
            /\ e.start > hs[h].begin
            /\ e.end > e.start
            /\ responses[h].at > e.end
            /\ ValuesOf(LatestOf(responses[h].rpt, HostID))
                 = ValuesOf(getLatests(0, iops(e.res)))
            /\ \A k \in DOMAIN LatestOf(responses[h].rpt, HostID) :
                 /\ LatestOf(responses[h].rpt, HostID)[k].Timestamp >= hs[h].begin
                 /\ LatestOf(responses[h].rpt, HostID)[k].Timestamp < e.end
  /\ \A h1, h2 \in Handlers :
       (h1 /= h2 /\ hs[h1].exec.id > 0) => hs[h1].exec.id /= hs[h2].exec.id
  /\ nexec = (IF probe = "none" THEN 0 ELSE 1) + nreq
               - Cardinality({h \in Handlers : hs[h].pc \in {"lock", "sample"}})

\* a second request is answered with the sample of its own invocation
C3_Witness ==
  \E h \in Handlers :
    /\ hs[h].pc = "unlock"
    /\ responses[h].status = 200
    /\ hs[h].req = 2
    /\ hs[h].exec.id = 3
    /\ LatestOf(responses[h].rpt, HostID) /= EmptyMap

\* C5: once the process has exited because of a signal the socket directory
\* and the socket file are gone.
C5_DirRemovedOnSignalExit ==
  (exited = "signal") => (~dirExists /\ ~sockExists)

C6_Shape(rpt, host) ==
  LET key == host \o <<";","<","h","o","s","t",">">>
      tkey == <<"i","o","p","s","-","t","a","b","l","e","-">>
      cols == << <<"d","e","v","i","c","e">>, <<"t","p","s">>,
                 <<"r","e","a","d","p","s">>, <<"w","r","i","t","e","p","s">> >>
  IN /\ DOMAIN rpt.Host.Nodes = {key}
     /\ rpt.Host.Nodes[key].LatestControls = EmptyMap
     /\ rpt.Host.Controls = EmptyMap
     /\ DOMAIN rpt.Host.MetadataTemplates = {cols[j] : j \in 1..4}
     /\ \A j \in 1..4 : rpt.Host.MetadataTemplates[cols[j]].ID = cols[j]
     /\ DOMAIN rpt.Host.TableTemplates = {tkey}
     /\ rpt.Host.TableTemplates[tkey].ID = tkey
     /\ rpt.Host.TableTemplates[tkey].Prefix = tkey
     /\ [j \in 1..Len(rpt.Host.TableTemplates[tkey].Columns) |->
           rpt.Host.TableTemplates[tkey].Columns[j].ID] = cols
     /\ Len(rpt.Plugins) = 1
     /\ rpt.Plugins[1].ID = <<"i","o","p","s">>
     /\ rpt.Plugins[1].Interfaces = << <<"r","e","p","o","r","t","e","r">> >>
     /\ [rpt EXCEPT !.Host.Nodes[key].Latest = EmptyMap]
          = makeReport(host, EmptyMap).rpt
     /\ \A k \in DOMAIN rpt.Host.Nodes[key].Latest :
          /\ HasPrefix(k, rpt.Host.TableTemplates[tkey].Prefix)
          /\ \E j \in 1..Len(rpt.Host.TableTemplates[tkey].Columns) :
               HasSuffix(k, <<"_","_","_">> \o rpt.Host.TableTemplates[tkey].Columns[j].ID)

\* C6: every report has the fixed shape whatever the sample: one node keyed
\* HostID;<host> with empty latestControls, empty controls, the four metadata
\* templates, the single table template with prefix "iops-table-" and columns
\* device, tps, readps, writeps, the single plugin spec, and latest keys that
\* start with the prefix and end with "___" and a column id; apart from the
\* latest map the report is the one built for an empty sample.
C6_FixedShape ==
  \A h \in Handlers :
    /\ (hs[h].pc = "marshal") => C6_Shape(hs[h].rpt, HostID)
    /\ (responses[h].status = 200) => C6_Shape(responses[h].rpt, HostID)

\* the report of a later request carries the entries of a successful sample
C6_Witness ==
  \E h \in Handlers :
    /\ responses[h].status = 200
    /\ hs[h].req = 2
    /\ Cardinality(DOMAIN LatestOf(responses[h].rpt, HostID)) >= 8

C7_Inv ==
  /\ (mainpc \in {"removeAll", "mkdirAll", "listen", "serve", "defer"})
       => probe = "ok"
  /\ (listening \/ sockExists) => probe = "ok"
  /\ (nreq > 0 \/ \E h \in Handlers : hs[h].pc /= "idle" \/ responses[h].status /= 0)
       => (probe = "ok" /\ mainpc \in {"serve", "defer"})
  /\ (probe = "err")
       => (exited = "fatal" /\ mainpc = "probe" /\ ~sockExists /\ ~listening
           /\ nreq = 0)
  /\ (exited = "fatal" /\ mainpc \in {"mkdirAll", "listen"})
       => (~listening /\ ~sockExists /\ nreq = 0)

C7_Step ==
  /\ (~dirExists /\ dirExists') => (probe = "ok" /\ mainpc = "mkdirAll")
  /\ (~sockExists /\ sockExists') => (probe = "ok" /\ mainpc = "listen")
  /\ (nreq' /= nreq) => (probe = "ok" /\ listening)
  /\ (mainpc = "removeAll" /\ mainpc' /= mainpc) => probe = "ok"

\* C7: the socket directory is removed by setupSocket, re-created and bound,
\* and requests are handled, only after the startup call of iops() returned
\* without error; if it fails the process exits without creating the socket
\* or handling a request, and if the bind fails it exits without handling one.
C7_StartupOrdering == [](C7_Inv) /\ [][C7_Step]_vars

\* a request has been answered by the serving daemon
C7_Witness ==
  /\ probe = "ok"
  /\ listening
  /\ \E h \in Handlers : responses[h].status = 200

\* C9: a failed sample during a request gives no error response: the handler
\* goes on to answer 200 with a report without latest entries and with the
\* usual templates and plugin spec; a 500 comes only from a marshalling error.
C9_FailedSampleStill200 ==
  \A h \in Handlers :
    /\ responses[h].status \in {0, 200, 500}
    /\ (responses[h].status = 500) => (responses[h].err = "marshal")
    /\ (hs[h].pc \in {"marshal", "unlock"} /\ iops(hs[h].exec.res).kind = "err") =>
         /\ hs[h].pc = "marshal" =>
              LatestOf(hs[h].rpt, HostID) = EmptyMap
         /\ hs[h].pc = "unlock" =>
              /\ responses[h].status \in {200, 500}
              /\ responses[h].status = 200 =>
                   /\ LatestOf(responses[h].rpt, HostID) = EmptyMap
                   /\ responses[h].rpt.Host.MetadataTemplates = getMetadataTemplate
                   /\ responses[h].rpt.Host.TableTemplates = getTableTemplate
                   /\ Len(responses[h].rpt.Plugins) = 1

\* the command failed while handling a request and the answer is a 200
C9_Witness ==
  \E h \in Handlers :
    /\ hs[h].pc = "unlock"
    /\ hs[h].exec.res.err
    /\ responses[h].status = 200

====
